---- MODULE Spec2Model ----
(***************************************************************************)
(* Ledger and stock consistency of the inventory server                    *)
(* (server/routes.ts): the handlers that post invoices and adjust stock,   *)
(* on the in-memory (mock) path and on the database path.                  *)
(***************************************************************************)
EXTENDS Integers, Sequences, FiniteSets, TLC

----------------------------------------------------------------------------
(* Bounds of the model *)

\* POST /api/invoices requests of one run; the run ends with the last of them
MaxInvoices == 2
\* longest stock movement log a POST /api/inventory request may extend
MaxMovements == 3
\* concurrent requests on the database path
MaxRequests == 2
\* /api/transactions requests of one run
MaxTransactionRequests == 2
\* browser clients
MaxClients == 2
\* purchase lines one run stores
MaxPurchaseLines == 1

----------------------------------------------------------------------------
(* Program constants *)

InventoryAccountId == 3
SalesRevenueAccountId == 5
CogsAccountId == 6
\* retry of the mutations of the query client
MutationRetries == 1
\* DELETE attempts of the delete-product mutation
DeleteAttempts == 3

----------------------------------------------------------------------------
(* Input domains of the requests *)

\* product ids a request may carry: 1 exists, 8 does not
ProductIds == {1, 8}
\* warehouse ids a request may carry
WarehouseIds == {1}
\* account ids a request may carry: 1 and 2 exist, 9 does not
AccountIds == {1, 2, 9}
Totals == {5}
CostPrices == {2, 3}
Prefixes == {"PUR-", "INV-", "QUO-"}
Statuses == {"posted", "draft"}

\* the warehouses of the store
KnownWarehouses == {1}

\* one element of a details array
Detail(productId, quantity) ==
    [isNull |-> FALSE, productId |-> productId, quantity |-> quantity]

\* a JSON null in a details array
NullDetail == [isNull |-> TRUE, productId |-> 0, quantity |-> 0]

\* the details arrays a request may carry
DetailsArrays ==
    {<<>>,
     <<Detail(1, 2)>>,
     <<Detail(1, 1), Detail(1, 2)>>, <<Detail(1, 0), Detail(1, 1)>>,
     <<Detail(1, 1), NullDetail>>, <<Detail(1, 2), Detail(8, 1)>>}

\* req.body.details: an array of details, or absent (not an array)
DetailsBodies == [isArray : {TRUE}, items : DetailsArrays]
                   \cup {[isArray |-> FALSE, items |-> <<>>]}

\* req.body.invoice: every posted document, and one draft (the handler reads
\* nothing but the status of a draft)
InvoiceBodies ==
    [invoiceNumber : [prefix : Prefixes, num : {1}],
     accountId : AccountIds, warehouseId : WarehouseIds,
     status : {"posted"}, total : Totals]
    \cup [invoiceNumber : [prefix : {"INV-"}, num : {1}],
          accountId : {1}, warehouseId : WarehouseIds,
          status : {"draft"}, total : Totals]

----------------------------------------------------------------------------
(* State *)

VARIABLES
    mockInvoices,           \* stored invoices, in creation order
    inventory,              \* stock records [productId, warehouseId, quantity]
    inventoryTransactions,  \* stock movement log
    mockTransactions,       \* transaction log
    accounts,               \* account id -> [type, currentBalance]
    products,               \* product id -> [costPrice]
    request,                \* the body of the last request handled
    response,               \* the last response sent: [route, status]
    reqs,                   \* database path: the requests in flight
    handled,                \* /api/transactions requests handled so far
    client,                 \* client id -> the state of the browser client
    invoiceDetails,         \* database path: the stored invoice lines
    purchaseDetails         \* database path: the stored purchase lines

vars == <<mockInvoices, inventory, inventoryTransactions, mockTransactions,
          accounts, products, request, response, reqs, handled, client,
          invoiceDetails, purchaseDetails>>

\* the tables and records of the store (the same on both paths)
store == <<mockInvoices, inventory, inventoryTransactions, mockTransactions,
           accounts, products>>

\* the request slots of the database path
Slots == 1..MaxRequests

\* the browser clients
Clients == 1..MaxClients

InitInventory == <<[productId |-> 1, warehouseId |-> 1, quantity |-> 3]>>

InitAccounts == (1 :> [type |-> "customer", currentBalance |-> 10])
             @@ (2 :> [type |-> "supplier", currentBalance |-> 20])

Init ==
    /\ mockInvoices = <<>>
    /\ inventory = InitInventory
    /\ inventoryTransactions = <<>>
    /\ mockTransactions = <<>>
    /\ accounts = InitAccounts
    /\ products = (1 :> [costPrice |-> 2])
    /\ request = [route |-> "none"]
    /\ response = [route |-> "none", status |-> 0]
    /\ reqs = [r \in Slots |-> [pc |-> "idle"]]
    /\ handled = 0
    /\ client = [c \in Clients |-> [pc |-> "idle"]]
    /\ invoiceDetails = <<>>
    /\ purchaseDetails = <<>>

----------------------------------------------------------------------------
(* Stock ledger *)

\* index of the stock record of (p, w), 0 when there is none
InventoryIndex(inv, p, w) ==
    LET hits == {i \in 1..Len(inv) : inv[i].productId = p /\ inv[i].warehouseId = w}
    IN  IF hits = {} THEN 0 ELSE CHOOSE i \in hits : \A j \in hits : i <= j

\* getLevel: the quantity of (p, w), 0 when there is no record
GetLevel(inv, p, w) ==
    LET i == InventoryIndex(inv, p, w) IN IF i = 0 THEN 0 ELSE inv[i].quantity

\* mockDB.createInventoryTransaction: append one movement to the log
CreateInventoryTransaction(log, p, w, q, type, documentId) ==
    Append(log, [productId |-> p, warehouseId |-> w, quantity |-> q,
                 type |-> type, documentId |-> documentId])

\* mockDB.updateInventory(productId, warehouseId, quantity, isAbsoluteValue,
\* documentId, documentType) on st = [inventory, inventoryTransactions,
\* costOfGoodsSold, threw]: NotFoundError for an unknown product or
\* warehouse; otherwise set or add the quantity (creating the record) and,
\* given a document reference, log the movement.
UpdateInventory(st, p, w, q, isAbsoluteValue, documentId, documentType) ==
    IF p \notin DOMAIN products \/ w \notin KnownWarehouses
    THEN [st EXCEPT !.threw = TRUE]
    ELSE LET i == InventoryIndex(st.inventory, p, w)
             inv == IF i = 0
                    THEN Append(st.inventory,
                                [productId |-> p, warehouseId |-> w, quantity |-> q])
                    ELSE [st.inventory EXCEPT
                            ![i].quantity = IF isAbsoluteValue THEN q ELSE @ + q]
             log == IF documentId # 0
                    THEN CreateInventoryTransaction(st.inventoryTransactions,
                                                    p, w, q, documentType, documentId)
                    ELSE st.inventoryTransactions
         IN  [st EXCEPT !.inventory = inv, !.inventoryTransactions = log]

----------------------------------------------------------------------------
(* Account ledger *)

\* an id no record of the transaction log has: one more than the largest
NewTransactionId(txs) ==
    IF txs = <<>> THEN 1
    ELSE 1 + (CHOOSE m \in {txs[i].id : i \in 1..Len(txs)} :
                 \A i \in 1..Len(txs) : txs[i].id <= m)

\* createMockTransaction: record one transaction under a fresh id
CreateMockTransaction(txs, type, accountId, amount, reference, isDebit) ==
    Append(txs, [id |-> NewTransactionId(txs), type |-> type,
                 accountId |-> accountId, amount |-> amount,
                 reference |-> reference, isDebit |-> isDebit])

----------------------------------------------------------------------------
(* POST /api/invoices, mock path *)

IsPurchase(invoice) == invoice.invoiceNumber.prefix = "PUR-"
IsSale(invoice) == invoice.invoiceNumber.prefix = "INV-"

QuantityChange_AlwaysAdds(isPurchase, quantity) == quantity

\* the signed stock change of one line
QuantityChange(isPurchase, quantity) == IF isPurchase THEN quantity ELSE -quantity

ApplyDetail_CogsOfLastLine(detail, newInvoice, st) ==
    IF detail.isNull
    THEN [st EXCEPT !.threw = TRUE]
    ELSE IF detail.productId # 0 /\ detail.quantity # 0
    THEN LET cogs == IF IsSale(newInvoice) /\ detail.productId \in DOMAIN products
                     THEN products[detail.productId].costPrice * detail.quantity
                     ELSE st.costOfGoodsSold
         IN  UpdateInventory([st EXCEPT !.costOfGoodsSold = cogs],
                             detail.productId, newInvoice.warehouseId,
                             QuantityChange(IsPurchase(newInvoice), detail.quantity),
                             FALSE, newInvoice.id,
                             IF IsPurchase(newInvoice) THEN "purchase" ELSE "sale")
    ELSE st

\* the body of details.forEach for one element
ApplyDetail(detail, newInvoice, st) ==
    IF detail.isNull
    THEN [st EXCEPT !.threw = TRUE]      \* TypeError reading detail.productId
    ELSE IF detail.productId # 0 /\ detail.quantity # 0
    THEN LET cogs == IF IsSale(newInvoice) /\ detail.productId \in DOMAIN products
                     THEN st.costOfGoodsSold
                            + products[detail.productId].costPrice * detail.quantity
                     ELSE st.costOfGoodsSold
         IN  UpdateInventory([st EXCEPT !.costOfGoodsSold = cogs],
                             detail.productId, newInvoice.warehouseId,
                             QuantityChange(IsPurchase(newInvoice), detail.quantity),
                             FALSE, newInvoice.id,
                             IF IsPurchase(newInvoice) THEN "purchase" ELSE "sale")
    ELSE st

RECURSIVE ApplyDetails(_, _, _, _)
\* details.forEach from element i on; an exception ends the loop
ApplyDetails(items, i, newInvoice, st) ==
    IF i > Len(items) \/ st.threw THEN st
    ELSE ApplyDetails(items, i + 1, newInvoice, ApplyDetail(items[i], newInvoice, st))

RECURSIVE CostOfDetails(_)
\* the cost of goods of the lines at the cost prices of the products
CostOfDetails(items) ==
    IF items = <<>> THEN 0
    ELSE (IF Head(items).productId \in DOMAIN products
          THEN products[Head(items).productId].costPrice * Head(items).quantity
          ELSE 0) + CostOfDetails(Tail(items))

\* the two journal entries of a purchase
PurchaseEntries(txs, newInvoice) ==
    LET t1 == CreateMockTransaction(txs, "journal", InventoryAccountId,
                                    newInvoice.total, newInvoice.invoiceNumber, TRUE)
    IN  CreateMockTransaction(t1, "journal", newInvoice.accountId,
                              newInvoice.total, newInvoice.invoiceNumber, FALSE)

SaleEntries_InventoryCreditedTotal(txs, newInvoice, costOfGoodsSold) ==
    LET t1 == CreateMockTransaction(txs, "journal", newInvoice.accountId,
                                    newInvoice.total, newInvoice.invoiceNumber, TRUE)
        t2 == CreateMockTransaction(t1, "journal", SalesRevenueAccountId,
                                    newInvoice.total, newInvoice.invoiceNumber, FALSE)
        t3 == CreateMockTransaction(t2, "journal", CogsAccountId,
                                    costOfGoodsSold, newInvoice.invoiceNumber, TRUE)
    IN  CreateMockTransaction(t3, "journal", InventoryAccountId,
                              newInvoice.total, newInvoice.invoiceNumber, FALSE)

\* the four journal entries of a sale
SaleEntries(txs, newInvoice, costOfGoodsSold) ==
    LET t1 == CreateMockTransaction(txs, "journal", newInvoice.accountId,
                                    newInvoice.total, newInvoice.invoiceNumber, TRUE)
        t2 == CreateMockTransaction(t1, "journal", SalesRevenueAccountId,
                                    newInvoice.total, newInvoice.invoiceNumber, FALSE)
        t3 == CreateMockTransaction(t2, "journal", CogsAccountId,
                                    costOfGoodsSold, newInvoice.invoiceNumber, TRUE)
    IN  CreateMockTransaction(t3, "journal", InventoryAccountId,
                              costOfGoodsSold, newInvoice.invoiceNumber, FALSE)

NewBalance_SaleSubtracts(currentBalance, newInvoice) ==
    IF IsPurchase(newInvoice) \/ IsSale(newInvoice)
    THEN currentBalance - newInvoice.total
    ELSE currentBalance

NewBalance_PurchaseAdds(currentBalance, newInvoice) ==
    IF IsPurchase(newInvoice) \/ IsSale(newInvoice)
    THEN currentBalance + newInvoice.total
    ELSE currentBalance

\* the new running balance of the invoice's account
NewBalance(currentBalance, newInvoice) ==
    IF IsPurchase(newInvoice) THEN currentBalance - newInvoice.total
    ELSE IF IsSale(newInvoice) THEN currentBalance + newInvoice.total
    ELSE currentBalance

\* step 3 of the handler: update the account balance
UpdateAccountBalance(accts, newInvoice) ==
    IF newInvoice.accountId # 0 /\ newInvoice.accountId \in DOMAIN accts
    THEN [accts EXCEPT ![newInvoice.accountId].currentBalance =
                          NewBalance(@, newInvoice)]
    ELSE accts

IsPostedWithDetails_AnyStatus(newInvoice, details) == details.isArray

\* the guard of the ledger effects: the invoice is posted (not a draft) and
\* the request carries a details array
IsPostedWithDetails(newInvoice, details) ==
    newInvoice.status = "posted" /\ details.isArray

\* Math.floor(Math.random() * 10000): an id no stored invoice has
NewInvoiceId == Len(mockInvoices) + 1

PostInvoiceMock(invoice, details) ==
    /\ Len(mockInvoices) < MaxInvoices
    /\ LET newInvoice == [id |-> NewInvoiceId,
                          invoiceNumber |-> invoice.invoiceNumber,
                          accountId |-> invoice.accountId,
                          warehouseId |-> invoice.warehouseId,
                          status |-> invoice.status,
                          total |-> invoice.total]
           st0 == [inventory |-> inventory,
                   inventoryTransactions |-> inventoryTransactions,
                   costOfGoodsSold |-> 0, threw |-> FALSE]
           st == ApplyDetails(details.items, 1, newInvoice, st0)
       IN  /\ request' = [route |-> "POST /api/invoices",
                           invoice |-> invoice, details |-> details]
           /\ mockInvoices' = Append(mockInvoices, newInvoice)
           /\ IF IsPostedWithDetails(newInvoice, details)
                 /\ (IsPurchase(newInvoice) \/ IsSale(newInvoice))
              THEN /\ inventory' = st.inventory
                   /\ inventoryTransactions' = st.inventoryTransactions
                   /\ IF st.threw
                      THEN /\ response' = [route |-> "POST /api/invoices", status |-> 500]
                           /\ UNCHANGED <<mockTransactions, accounts>>
                      ELSE /\ mockTransactions' =
                                 IF IsPurchase(newInvoice)
                                 THEN PurchaseEntries(mockTransactions, newInvoice)
                                 ELSE SaleEntries(mockTransactions, newInvoice,
                                                  st.costOfGoodsSold)
                           /\ accounts' = UpdateAccountBalance(accounts, newInvoice)
                           /\ response' = [route |-> "POST /api/invoices", status |-> 201]
              ELSE /\ response' = [route |-> "POST /api/invoices", status |-> 201]
                   /\ UNCHANGED <<inventory, inventoryTransactions,
                                  mockTransactions, accounts>>
    /\ UNCHANGED <<products, reqs, handled, invoiceDetails, purchaseDetails>>

PostInvoice == \E invoice \in InvoiceBodies, details \in DetailsBodies :
                  PostInvoiceMock(invoice, details) /\ UNCHANGED client

----------------------------------------------------------------------------
(* PATCH /api/products/:id, mock path *)

PatchProduct == \E id \in ProductIds, costPrice \in CostPrices :
    /\ Len(mockInvoices) < MaxInvoices
    /\ request' = [route |-> "PATCH /api/products/:id"]
    /\ IF id \in DOMAIN products
       THEN /\ products' = [products EXCEPT ![id].costPrice = costPrice]
            /\ response' = [route |-> "PATCH /api/products/:id", status |-> 200]
       ELSE /\ products' = products
            /\ response' = [route |-> "PATCH /api/products/:id", status |-> 404]
    /\ UNCHANGED <<mockInvoices, inventory, inventoryTransactions,
                   mockTransactions, accounts, reqs, handled, client, invoiceDetails, purchaseDetails>>

----------------------------------------------------------------------------

Next == PostInvoice \/ PatchProduct

\* the mock server handling invoice and product requests
Spec == Init /\ [][Next]_vars

----------------------------------------------------------------------------
(* POST /api/inventory, mock path *)

\* quantities a POST /api/inventory request may carry
InventoryQuantities == {-1, 0, 2, 5}

PostInventoryMock(productId, warehouseId, quantity, isCount) ==
    /\ Len(inventoryTransactions) < MaxMovements
    /\ request' = [route |-> "POST /api/inventory", productId |-> productId,
                    warehouseId |-> warehouseId, quantity |-> quantity,
                    isCount |-> isCount]
    /\ IF productId = 0 \/ warehouseId = 0
       THEN /\ response' = [route |-> "POST /api/inventory", status |-> 400]
            /\ UNCHANGED <<inventory, inventoryTransactions>>
       ELSE LET st0 == [inventory |-> inventory,
                        inventoryTransactions |-> inventoryTransactions,
                        costOfGoodsSold |-> 0, threw |-> FALSE]
                st == UpdateInventory(st0, productId, warehouseId, quantity,
                                      isCount, 0, "none")
            IN  IF st.threw
                THEN /\ response' = [route |-> "POST /api/inventory", status |-> 500]
                     /\ UNCHANGED <<inventory, inventoryTransactions>>
                ELSE /\ inventory' = st.inventory
                     /\ inventoryTransactions' =
                           CreateInventoryTransaction(
                               st.inventoryTransactions, productId, warehouseId,
                               quantity,
                               IF isCount \/ quantity > 0 THEN "adjustment" ELSE "sale",
                               0)
                     /\ response' = [route |-> "POST /api/inventory", status |-> 200]
    /\ UNCHANGED <<mockInvoices, mockTransactions, accounts, products, reqs,
                   handled, invoiceDetails, purchaseDetails>>

PostInventory ==
    \E productId \in ProductIds \cup {0}, warehouseId \in WarehouseIds,
       quantity \in InventoryQuantities, isCount \in BOOLEAN :
        PostInventoryMock(productId, warehouseId, quantity, isCount)
        /\ UNCHANGED client

NextInventory == PostInventory

\* the mock server handling stock adjustment and count requests
SpecInventory == Init /\ [][NextInventory]_vars

----------------------------------------------------------------------------
(* POST /api/invoices, database path.  Each request runs as a sequence of  *)
(* steps; the steps of different requests interleave at the awaits.        *)

\* details arrays of the database path requests
DbDetailsBodies ==
    {[isArray |-> FALSE, items |-> <<>>]}
    \cup [isArray : {TRUE},
          items : {<<Detail(1, 0)>>, <<Detail(1, 1)>>, <<Detail(1, 2)>>,
                   <<Detail(1, 1), Detail(1, 2)>>}]

\* invoices of the database path requests
DbInvoiceBodies == [invoiceNumber : [prefix : {"PUR-", "INV-"}, num : {1}],
                    accountId : {0, 1, 2}, warehouseId : WarehouseIds,
                    status : Statuses, total : Totals]

\* the validation of the handler before storage.createInvoice is called
DbValid(invoice, details) ==
    /\ details.isArray
    /\ \A k \in 1..Len(details.items) :
          /\ details.items[k].productId # 0
          /\ details.items[k].quantity # 0
    /\ invoice.status = "posted" => (invoice.accountId # 0 /\ invoice.warehouseId # 0)

\* the request arrives: it is validated and storage.createInvoice begins by
\* inserting the invoice row
DbPostInvoice(r, invoice, details) ==
    /\ reqs[r].pc = "idle"
    /\ IF ~DbValid(invoice, details)
       THEN /\ reqs' = [reqs EXCEPT ![r] =
                          [pc |-> "done", status |-> 400, invoice |-> invoice,
                           details |-> details, applied |-> FALSE]]
            /\ UNCHANGED <<mockInvoices, invoiceDetails>>
       ELSE /\ invoiceDetails' =
                 invoiceDetails \o
                 [k \in 1..Len(details.items) |->
                     [invoiceId |-> NewInvoiceId,
                      productId |-> details.items[k].productId]]
            /\ mockInvoices' =
                 Append(mockInvoices,
                        [id |-> NewInvoiceId,
                         invoiceNumber |-> invoice.invoiceNumber,
                         accountId |-> invoice.accountId,
                         warehouseId |-> invoice.warehouseId,
                         status |-> invoice.status, total |-> invoice.total])
            /\ reqs' = [reqs EXCEPT ![r] =
                          IF invoice.status = "posted" /\ Len(details.items) > 0
                          THEN [pc |-> "readStock", id |-> NewInvoiceId,
                                invoice |-> invoice, details |-> details,
                                line |-> 1, quantity |-> 0, balance |-> 0]
                          ELSE IF invoice.status = "posted"
                          THEN [pc |-> "journal", id |-> NewInvoiceId,
                                invoice |-> invoice, details |-> details,
                                line |-> 1, quantity |-> 0, balance |-> 0]
                          ELSE [pc |-> "done", status |-> 201, invoice |-> invoice,
                                details |-> details, applied |-> FALSE]]
    /\ UNCHANGED <<inventory, inventoryTransactions, mockTransactions, accounts,
                   products, request, response, handled, client,
                   purchaseDetails>>

\* storage.createInvoice reads the quantity of the cell of the current line
DbReadStock(r) ==
    /\ reqs[r].pc = "readStock"
    /\ reqs' = [reqs EXCEPT
                  ![r].pc = "writeStock",
                  ![r].quantity =
                      GetLevel(inventory,
                               reqs[r].details.items[reqs[r].line].productId,
                               reqs[r].invoice.warehouseId)]
    /\ UNCHANGED <<store, request, response, handled, client, invoiceDetails, purchaseDetails>>

\* storage.createInvoice writes the quantity it read plus the change of the
\* line back, and logs the movement
DbWriteStock(r) ==
    /\ reqs[r].pc = "writeStock"
    /\ LET detail == reqs[r].details.items[reqs[r].line]
           p == detail.productId
           w == reqs[r].invoice.warehouseId
           change == QuantityChange(IsPurchase(reqs[r].invoice), detail.quantity)
           i == InventoryIndex(inventory, p, w)
       IN  /\ inventory' =
                 IF i = 0
                 THEN Append(inventory, [productId |-> p, warehouseId |-> w,
                                         quantity |-> reqs[r].quantity + change])
                 ELSE [inventory EXCEPT ![i].quantity = reqs[r].quantity + change]
           /\ inventoryTransactions' =
                 CreateInventoryTransaction(
                     inventoryTransactions, p, w, change,
                     IF IsPurchase(reqs[r].invoice) THEN "purchase" ELSE "sale",
                     reqs[r].id)
    /\ reqs' = [reqs EXCEPT
                  ![r].pc = IF reqs[r].line < Len(reqs[r].details.items)
                            THEN "readStock" ELSE "journal",
                  ![r].line = @ + 1]
    /\ UNCHANGED <<mockInvoices, mockTransactions, accounts, products,
                   request, response, handled, client, invoiceDetails, purchaseDetails>>

\* storage.createInvoice records the journal entries of the document and
\* reads the balance of its account
DbJournal(r) ==
    /\ reqs[r].pc = "journal"
    /\ LET inv == reqs[r].invoice
       IN  mockTransactions' =
              IF IsPurchase(inv) THEN PurchaseEntries(mockTransactions, inv)
              ELSE SaleEntries(mockTransactions, inv,
                               CostOfDetails(reqs[r].details.items))
    /\ reqs' = [reqs EXCEPT
                  ![r].pc = "writeBalance",
                  ![r].balance =
                      IF reqs[r].invoice.accountId \in DOMAIN accounts
                      THEN accounts[reqs[r].invoice.accountId].currentBalance
                      ELSE 0]
    /\ UNCHANGED <<mockInvoices, inventory, inventoryTransactions, accounts,
                   products, request, response, handled, client, invoiceDetails, purchaseDetails>>

\* storage.createInvoice writes the new balance back; the handler answers 201
DbWriteBalance(r) ==
    /\ reqs[r].pc = "writeBalance"
    /\ LET inv == reqs[r].invoice
       IN  accounts' =
              IF inv.accountId \in DOMAIN accounts
              THEN [accounts EXCEPT ![inv.accountId].currentBalance =
                                       NewBalance(reqs[r].balance, inv)]
              ELSE accounts
    /\ reqs' = [reqs EXCEPT ![r] = [pc |-> "done", status |-> 201,
                                    invoice |-> reqs[r].invoice,
                                    details |-> reqs[r].details,
                                    applied |-> TRUE]]
    /\ UNCHANGED <<mockInvoices, inventory, inventoryTransactions,
                   mockTransactions, products, request, response, handled, client, invoiceDetails, purchaseDetails>>

NextDb ==
    \/ \E r \in Slots, invoice \in DbInvoiceBodies, details \in DbDetailsBodies :
          DbPostInvoice(r, invoice, details)
    \/ \E r \in Slots : DbReadStock(r)
    \/ \E r \in Slots : DbWriteStock(r)
    \/ \E r \in Slots : DbJournal(r)
    \/ \E r \in Slots : DbWriteBalance(r)

\* the server on the database path, with MaxRequests requests in flight
SpecDb == Init /\ [][NextDb]_vars

----------------------------------------------------------------------------
(* POST /api/invoices, mock path, with lines of non-positive quantity *)

\* details arrays with lines of negative and zero quantity
SignedDetailsArrays ==
    {<<Detail(1, 2)>>, <<Detail(1, 0)>>, <<Detail(1, -1)>>,
     <<Detail(1, 2), Detail(1, -1)>>}

PostInvoiceSigned ==
    \E invoice \in InvoiceBodies, items \in SignedDetailsArrays :
        PostInvoiceMock(invoice, [isArray |-> TRUE, items |-> items])
        /\ UNCHANGED client

NextSigned == PostInvoiceSigned

\* the mock server handling invoices whose lines carry any quantity
SpecSigned == Init /\ [][NextSigned]_vars

----------------------------------------------------------------------------
(* POST, PATCH and DELETE /api/transactions, mock path *)

\* a number as the amount of a request body
Number(value) == [isNumber |-> TRUE, value |-> value]

\* a text that is not a number ("abc") as the amount of a request body
NotANumber == [isNumber |-> FALSE, value |-> 0]

\* a field the request or the record does not carry
Undefined == "undefined"

\* the fields of the bodies of POST /api/transactions
TransactionTypes == {"credit", "debit", "journal", "refund"}
TransactionAccountIds == {0, 1, 2, 9}
TransactionAmounts == {Number(-3), Number(0), Number(4), NotANumber}
PaymentMethods == {Undefined, "crypto"}

\* the ids and amounts of the PATCH and DELETE requests
TransactionIds == {1, 2, 5}
PatchAmounts == {Number(0), Number(-3), Number(6)}

\* parseFloat(String(amount))
ParseFloat(amount) ==
    IF amount.isNumber THEN [isNaN |-> FALSE, value |-> amount.value]
    ELSE [isNaN |-> TRUE, value |-> 0]

\* !type || !accountId || !amount
MissingRequiredFields(type, accountId, amount) ==
    type = "" \/ accountId = 0 \/ (amount.isNumber /\ amount.value = 0)

InvalidAmount_NegativeAllowed(amount) == ParseFloat(amount).isNaN

\* isNaN(parsedAmount) || parsedAmount <= 0
InvalidAmount(amount) ==
    ParseFloat(amount).isNaN \/ ParseFloat(amount).value <= 0

\* paymentMethod || 'cash' is not one of cash, bank, check, card
InvalidPaymentMethod(paymentMethod) ==
    LET parsedPaymentMethod ==
            IF paymentMethod = Undefined THEN "cash" ELSE paymentMethod
    IN  parsedPaymentMethod \notin {"cash", "bank", "check", "card"}

NewBalanceOfTransaction_SupplierLikeCustomer(currentBalance, accountType, type, parsedAmount) ==
    IF type = "credit" /\ accountType \in {"customer", "supplier"}
    THEN currentBalance - parsedAmount
    ELSE IF type = "debit" /\ accountType \in {"customer", "supplier"}
    THEN currentBalance + parsedAmount
    ELSE currentBalance

\* the balance of the account after a transaction of the given type
NewBalanceOfTransaction(currentBalance, accountType, type, parsedAmount) ==
    IF type = "credit"
    THEN IF accountType = "customer" THEN currentBalance - parsedAmount
         ELSE IF accountType = "supplier" THEN currentBalance + parsedAmount
         ELSE currentBalance
    ELSE IF type = "debit"
    THEN IF accountType = "customer" THEN currentBalance + parsedAmount
         ELSE IF accountType = "supplier" THEN currentBalance - parsedAmount
         ELSE currentBalance
    ELSE currentBalance

PostTransactionMock(type, accountId, amount, paymentMethod, isDebit) ==
    /\ handled < MaxTransactionRequests
    /\ handled' = handled + 1
    /\ request' = [route |-> "POST /api/transactions", type |-> type,
                    accountId |-> accountId, amount |-> amount,
                    paymentMethod |-> paymentMethod, isDebit |-> isDebit]
    /\ IF \/ MissingRequiredFields(type, accountId, amount)
          \/ InvalidAmount(amount)
          \/ type \notin {"credit", "debit", "journal"}
          \/ InvalidPaymentMethod(paymentMethod)
       THEN /\ response' = [route |-> "POST /api/transactions", status |-> 400]
            /\ UNCHANGED <<mockTransactions, accounts>>
       ELSE LET parsedAmount == ParseFloat(amount).value
            IN  /\ mockTransactions' =
                      CreateMockTransaction(mockTransactions, type, accountId,
                                            parsedAmount, "", Undefined)
                /\ accounts' =
                      IF accountId \in DOMAIN accounts
                      THEN [accounts EXCEPT ![accountId].currentBalance =
                              NewBalanceOfTransaction(@, accounts[accountId].type,
                                                      type, parsedAmount)]
                      ELSE accounts
                /\ response' = [route |-> "POST /api/transactions", status |-> 201]
    /\ UNCHANGED <<mockInvoices, inventory, inventoryTransactions, products, reqs,
                   client, invoiceDetails, purchaseDetails>>

PostTransaction ==
    \E type \in TransactionTypes, accountId \in TransactionAccountIds,
       amount \in TransactionAmounts, paymentMethod \in PaymentMethods,
       isDebit \in BOOLEAN :
        PostTransactionMock(type, accountId, amount, paymentMethod, isDebit)

\* index of the record with the given id in the transaction log, 0 when none
TransactionIndex(txs, id) ==
    LET hits == {i \in 1..Len(txs) : txs[i].id = id}
    IN  IF hits = {} THEN 0 ELSE CHOOSE i \in hits : \A j \in hits : i <= j

\* updateMockTransaction(id, fields): overwrite the fields that are given
\* (hasAmount: the amount is not undefined)
UpdateMockTransaction(txs, id, hasAmount, amount) ==
    LET i == TransactionIndex(txs, id)
    IN  IF i = 0 \/ ~hasAmount THEN txs
        ELSE [txs EXCEPT ![i].amount = amount]

\* deleteMockTransaction(id): remove the record
DeleteMockTransaction(txs, id) ==
    LET i == TransactionIndex(txs, id)
    IN  IF i = 0 THEN txs
        ELSE SubSeq(txs, 1, i - 1) \o SubSeq(txs, i + 1, Len(txs))

PatchTransactionMock(id, amount) ==
    /\ handled < MaxTransactionRequests
    /\ handled' = handled + 1
    /\ request' = [route |-> "PATCH /api/transactions/:id", id |-> id,
                    amount |-> amount]
    /\ IF TransactionIndex(mockTransactions, id) = 0
       THEN /\ response' = [route |-> "PATCH /api/transactions/:id", status |-> 404]
            /\ UNCHANGED mockTransactions
       ELSE /\ mockTransactions' =
                 UpdateMockTransaction(
                     mockTransactions, id,
                     \* amount ? parseFloat(String(amount)) : undefined
                     ~(amount.isNumber /\ amount.value = 0),
                     ParseFloat(amount).value)
            /\ response' = [route |-> "PATCH /api/transactions/:id", status |-> 200]
    /\ UNCHANGED <<mockInvoices, inventory, inventoryTransactions, accounts,
                   products, reqs, client, invoiceDetails, purchaseDetails>>

PatchTransaction ==
    \E id \in TransactionIds, amount \in PatchAmounts :
        PatchTransactionMock(id, amount)

DeleteTransactionMock(id) ==
    /\ handled < MaxTransactionRequests
    /\ handled' = handled + 1
    /\ request' = [route |-> "DELETE /api/transactions/:id", id |-> id]
    /\ IF TransactionIndex(mockTransactions, id) = 0
       THEN /\ response' = [route |-> "DELETE /api/transactions/:id", status |-> 404]
            /\ UNCHANGED mockTransactions
       ELSE /\ mockTransactions' = DeleteMockTransaction(mockTransactions, id)
            /\ response' = [route |-> "DELETE /api/transactions/:id", status |-> 200]
    /\ UNCHANGED <<mockInvoices, inventory, inventoryTransactions, accounts,
                   products, reqs, client, invoiceDetails, purchaseDetails>>

DeleteTransaction == \E id \in TransactionIds : DeleteTransactionMock(id)

NextTransactions == PostTransaction \/ PatchTransaction \/ DeleteTransaction

\* the mock server handling transaction requests
SpecTransactions == Init /\ [][NextTransactions]_vars

----------------------------------------------------------------------------
(* POST /api/inventory (absolute counts), POST /api/purchases and          *)
(* DELETE /api/forceDeleteProduct/:id, database path.  A count runs as a   *)
(* sequence of steps; the steps of different requests interleave at the    *)
(* awaits.                                                                 *)

\* warehouses and quantities of the count requests
DbCountWarehouseIds == {1, 2}
DbCountQuantities == {0, 2}

\* rows of a table that reference the product
RowsOfProduct(table, id) == SelectSeq(table, LAMBDA row : row.productId = id)

\* rows of a table that do not reference the product
RowsOfOtherProducts(table, id) ==
    SelectSeq(table, LAMBDA row : row.productId # id)

\* the count request arrives: it is validated and storage.getInventory reads
\* the record of the pair
DbPostInventory(r, productId, warehouseId, quantity) ==
    /\ reqs[r].pc = "idle"
    /\ reqs' = [reqs EXCEPT ![r] =
                  IF productId = 0 \/ warehouseId = 0
                  THEN [pc |-> "done", status |-> 400, productId |-> productId,
                        warehouseId |-> warehouseId, quantity |-> quantity]
                  ELSE [pc |-> "write", productId |-> productId,
                        warehouseId |-> warehouseId, quantity |-> quantity,
                        existingInventory |->
                            InventoryIndex(inventory, productId, warehouseId) # 0,
                        existingQuantity |->
                            GetLevel(inventory, productId, warehouseId)]]
    /\ UNCHANGED <<store, request, response, handled, client, invoiceDetails,
                   purchaseDetails>>

\* the record that was read is updated to the counted quantity, or, when none
\* was read, a new record is inserted
DbCountWrite(r) ==
    /\ reqs[r].pc = "write"
    /\ inventory' =
          IF reqs[r].existingInventory
          THEN [i \in 1..Len(inventory) |->
                   IF /\ inventory[i].productId = reqs[r].productId
                      /\ inventory[i].warehouseId = reqs[r].warehouseId
                   THEN [inventory[i] EXCEPT !.quantity = reqs[r].quantity]
                   ELSE inventory[i]]
          ELSE Append(inventory, [productId |-> reqs[r].productId,
                                  warehouseId |-> reqs[r].warehouseId,
                                  quantity |-> reqs[r].quantity])
    /\ reqs' = [reqs EXCEPT ![r].pc = "log"]
    /\ UNCHANGED <<mockInvoices, inventoryTransactions, mockTransactions,
                   accounts, products, request, response, handled, client,
                   invoiceDetails, purchaseDetails>>

\* the adjustment is logged and the handler answers
DbCountLog(r) ==
    /\ reqs[r].pc = "log"
    /\ inventoryTransactions' =
          CreateInventoryTransaction(
              inventoryTransactions, reqs[r].productId, reqs[r].warehouseId,
              IF reqs[r].existingInventory
              THEN reqs[r].quantity - reqs[r].existingQuantity
              ELSE reqs[r].quantity,
              "adjustment", 0)
    /\ reqs' = [reqs EXCEPT ![r] =
                  [pc |-> "done",
                   status |-> IF reqs[r].existingInventory THEN 200 ELSE 201,
                   productId |-> reqs[r].productId,
                   warehouseId |-> reqs[r].warehouseId,
                   quantity |-> reqs[r].quantity]]
    /\ UNCHANGED <<mockInvoices, inventory, mockTransactions, accounts,
                   products, request, response, handled, client,
                   invoiceDetails, purchaseDetails>>

\* POST /api/purchases: storage.createPurchase stores the purchase lines
PostPurchase(details) ==
    /\ Len(purchaseDetails) < MaxPurchaseLines
    /\ request' = [route |-> "POST /api/purchases", details |-> details]
    /\ IF \/ ~details.isArray
          \/ \E k \in 1..Len(details.items) :
                \/ details.items[k].productId = 0
                \/ details.items[k].quantity = 0
       THEN /\ response' = [route |-> "POST /api/purchases", status |-> 400]
            /\ UNCHANGED purchaseDetails
       ELSE /\ purchaseDetails' =
                 purchaseDetails \o
                 [k \in 1..Len(details.items) |->
                     [productId |-> details.items[k].productId]]
            /\ response' = [route |-> "POST /api/purchases", status |-> 201]
    /\ UNCHANGED <<store, reqs, handled, client, invoiceDetails>>

\* DELETE /api/forceDeleteProduct/:id
ForceDeleteProduct(id) ==
    /\ request' = [route |-> "DELETE /api/forceDeleteProduct/:id", id |-> id]
    /\ LET inventoryItems == RowsOfProduct(inventory, id)
           hasInventory == \E i \in 1..Len(inventoryItems) :
                               inventoryItems[i].quantity > 0
       IN  IF id \notin DOMAIN products
           THEN /\ response' = [route |-> "DELETE /api/forceDeleteProduct/:id",
                                status |-> 404]
                /\ UNCHANGED <<invoiceDetails, purchaseDetails, inventory,
                               inventoryTransactions, products>>
           ELSE IF hasInventory
           THEN /\ response' = [route |-> "DELETE /api/forceDeleteProduct/:id",
                                status |-> 400]
                /\ UNCHANGED <<invoiceDetails, purchaseDetails, inventory,
                               inventoryTransactions, products>>
           ELSE /\ invoiceDetails' = RowsOfOtherProducts(invoiceDetails, id)
                /\ purchaseDetails' = RowsOfOtherProducts(purchaseDetails, id)
                /\ inventory' = RowsOfOtherProducts(inventory, id)
                /\ inventoryTransactions' =
                      RowsOfOtherProducts(inventoryTransactions, id)
                /\ products' = [p \in DOMAIN products \ {id} |-> products[p]]
                /\ response' = [route |-> "DELETE /api/forceDeleteProduct/:id",
                                status |-> 200]
    /\ UNCHANGED <<mockInvoices, mockTransactions, accounts, reqs, handled,
                   client>>

NextForceDelete ==
    \/ \E r \in Slots, productId \in {0, 1},
          warehouseId \in DbCountWarehouseIds,
          quantity \in DbCountQuantities :
          DbPostInventory(r, productId, warehouseId, quantity)
    \/ \E r \in Slots : DbCountWrite(r)
    \/ \E r \in Slots : DbCountLog(r)
    \/ \E items \in {<<Detail(1, 2)>>, <<Detail(1, 0)>>} :
          PostPurchase([isArray |-> TRUE, items |-> items])
    \/ \E id \in ProductIds : ForceDeleteProduct(id)

\* the server on the database path handling counts, purchases and forced
\* product deletions
SpecForceDelete == Init /\ [][NextForceDelete]_vars

----------------------------------------------------------------------------

(* GET /api/next-invoice-number, GET /api/invoices and                     *)
(* GET /api/transactions, mock path, and the clients that ask for the next *)
(* invoice number and create the invoice under it.                         *)

\* a JavaScript array: the object (the stored array, or a new one) and the
\* items it holds.  Sorting changes the object it is called on.
ArrayOf(ref, items) == [ref |-> ref, items |-> items]

\* what the stored array holds once the handler is done with the array
StoredItems(ref, items, array) ==
    IF array.ref = ref THEN array.items ELSE items

\* [...array]: a new array of the same items
Spread(array) == ArrayOf("new", array.items)

FilterByType_InPlace(array, isPurchase) ==
    [array EXCEPT !.items =
        SelectSeq(@, LAMBDA invoice :
            invoice.invoiceNumber.prefix =
                (IF isPurchase THEN "PUR-" ELSE "INV-"))]

\* array.filter(invoice => invoice.invoiceNumber.startsWith(...)): a new
\* array of the invoices of the type
FilterByType(array, isPurchase) ==
    ArrayOf("new",
            SelectSeq(array.items, LAMBDA invoice :
                invoice.invoiceNumber.prefix =
                    (IF isPurchase THEN "PUR-" ELSE "INV-")))

\* array.filter(x => x.accountId === accountId): a new array
FilterByAccount(array, accountId) ==
    ArrayOf("new", SelectSeq(array.items, LAMBDA x : x.accountId = accountId))

\* array.filter(invoice => !invoice.invoiceNumber.startsWith('PUR-'))
FilterSales(array) ==
    ArrayOf("new", SelectSeq(array.items, LAMBDA invoice :
                                 invoice.invoiceNumber.prefix # "PUR-"))

\* the place of an item in a sorted sequence: behind every item that does not
\* sort after it (the sort is stable)
RECURSIVE InsertSorted(_, _, _)
InsertSorted(sorted, item, key) ==
    IF sorted = <<>> THEN <<item>>
    ELSE IF key[Head(sorted).id] >= key[item.id]
    THEN <<Head(sorted)>> \o InsertSorted(Tail(sorted), item, key)
    ELSE <<item>> \o sorted

RECURSIVE SortItems(_, _)
SortItems(items, key) ==
    IF items = <<>> THEN <<>>
    ELSE InsertSorted(SortItems(SubSeq(items, 1, Len(items) - 1), key),
                      items[Len(items)], key)

\* array.sort((a, b) => numB - numA): the array itself, sorted by the numeric
\* part of the invoice number, largest first
SortByNumber(array) ==
    [array EXCEPT !.items =
        SortItems(@, [id \in {@[i].id : i \in 1..Len(@)} |->
                        LET i == CHOOSE i \in 1..Len(@) : @[i].id = id
                        IN  @[i].invoiceNumber.num])]

\* array.sort((a, b) => new Date(b.date) - new Date(a.date)): the array
\* itself, latest first (a transaction is dated when it is recorded, so the
\* ids stand for the dates)
SortByDate(array) ==
    [array EXCEPT !.items =
        SortItems(@, [id \in {@[i].id : i \in 1..Len(@)} |-> id])]

\* the query parameters of the read requests
NoQuery == [present |-> FALSE, parsed |-> NotANumber]
Query(parsed) == [present |-> TRUE, parsed |-> parsed]
AccountQueries == {NoQuery, Query(Number(1)), Query(NotANumber)}
TypeQueries == {"sales", "purchases", Undefined}

\* GET /api/next-invoice-number?type=...: client c asks for a number
GetNextInvoiceNumber(c, isPurchase) ==
    /\ client[c].pc = "idle"
    /\ LET sorted == SortByNumber(
                         FilterByType(ArrayOf("mockInvoices", mockInvoices),
                                      isPurchase))
           lastInvoice == sorted.items[1]
           prefix == IF isPurchase THEN "PUR-" ELSE "INV-"
           nextNumber ==
               IF Len(sorted.items) > 0
               THEN [prefix |-> prefix, num |-> lastInvoice.invoiceNumber.num + 1]
               ELSE [prefix |-> prefix, num |-> 1]
       IN  /\ mockInvoices' = StoredItems("mockInvoices", mockInvoices, sorted)
           /\ request' = [route |-> "GET /api/next-invoice-number",
                          isPurchase |-> isPurchase]
           /\ response' = [route |-> "GET /api/next-invoice-number",
                           status |-> 200, number |-> nextNumber]
           /\ client' = [client EXCEPT ![c] =
                            [pc |-> "numbered", number |-> nextNumber]]
    /\ UNCHANGED <<inventory, inventoryTransactions, mockTransactions, accounts,
                   products, reqs, handled, invoiceDetails, purchaseDetails>>

\* client c creates a posted invoice under the number it received
CreateNumberedInvoice(c) ==
    /\ client[c].pc = "numbered"
    /\ \E accountId \in {1, 2} :
          PostInvoiceMock([invoiceNumber |-> client[c].number,
                           accountId |-> accountId, warehouseId |-> 1,
                           status |-> "posted", total |-> 5],
                          [isArray |-> TRUE, items |-> <<Detail(1, 1)>>])
    /\ client' = [client EXCEPT ![c] = [pc |-> "idle"]]

\* GET /api/invoices?accountId=...&type=...
GetInvoices(accountId, type) ==
    /\ LET all == ArrayOf("mockInvoices", mockInvoices)
           ofAccount == IF accountId.present
                        THEN FilterByAccount(all,
                                 IF accountId.parsed.isNumber
                                 THEN accountId.parsed.value ELSE 0)
                        ELSE all
           filteredInvoices ==
               IF type = "sales" THEN FilterSales(ofAccount)
               ELSE IF type = "purchases" THEN FilterByType(ofAccount, TRUE)
               ELSE ofAccount
       IN  mockInvoices' =
               StoredItems("mockInvoices", mockInvoices, filteredInvoices)
    /\ request' = [route |-> "GET /api/invoices", accountId |-> accountId,
                    type |-> type]
    /\ response' = [route |-> "GET /api/invoices", status |-> 200]
    /\ UNCHANGED <<inventory, inventoryTransactions, mockTransactions, accounts,
                   products, reqs, handled, client, invoiceDetails,
                   purchaseDetails>>

\* GET /api/transactions?accountId=...
GetTransactions(accountId) ==
    /\ request' = [route |-> "GET /api/transactions", accountId |-> accountId]
    /\ IF accountId.present /\ ~accountId.parsed.isNumber
       THEN /\ response' = [route |-> "GET /api/transactions", status |-> 400]
            /\ UNCHANGED mockTransactions
       ELSE LET copy == Spread(ArrayOf("mockTransactions", mockTransactions))
                filteredTransactions ==
                    IF accountId.present
                    THEN FilterByAccount(copy, accountId.parsed.value)
                    ELSE copy
                sorted == SortByDate(filteredTransactions)
            IN  /\ mockTransactions' =
                      StoredItems("mockTransactions", mockTransactions, sorted)
                /\ response' = [route |-> "GET /api/transactions",
                                status |-> 200]
    /\ UNCHANGED <<mockInvoices, inventory, inventoryTransactions, accounts,
                   products, reqs, handled, client, invoiceDetails,
                   purchaseDetails>>

NextNumbers ==
    \/ \E c \in Clients, isPurchase \in BOOLEAN :
          GetNextInvoiceNumber(c, isPurchase)
    \/ \E c \in Clients : CreateNumberedInvoice(c)
    \/ \E accountId \in {NoQuery, Query(Number(1))}, type \in TypeQueries :
          GetInvoices(accountId, type)
    \/ \E accountId \in AccountQueries : GetTransactions(accountId)

\* the mock server answering read requests, and clients that number and
\* create invoices
SpecNumbers == Init /\ [][NextNumbers]_vars

----------------------------------------------------------------------------

(* The client: apiRequest and the mutation that submits a posted invoice   *)
(* to POST /api/invoices of the mock server.                               *)

\* the decimal digits of a number, as characters
RECURSIVE ToChars(_)
ToChars(n) ==
    LET digit == <<"0", "1", "2", "3", "4", "5", "6", "7", "8", "9">>
    IN  IF n < 10 THEN <<digit[n + 1]>>
        ELSE ToChars(n \div 10) \o <<digit[(n % 10) + 1]>>

\* the Error thrown for a response that is not ok.  The Error with the
\* message of the server is thrown inside the try block and caught by its
\* catch clause, which throws `API Error: ${res.status} ${res.statusText}`.
ResponseError(status) ==
    [isTypeError |-> FALSE, status |-> status,
     message |-> <<"A", "P", "I", " ", "E", "r", "r", "o", "r", ":", " ">>
                 \o ToChars(status)]

\* the TypeError fetch rejects with when the network fails
NetworkError ==
    [isTypeError |-> TRUE, status |-> 0,
     message |-> <<"F", "a", "i", "l", "e", "d">>]

\* message.startsWith(prefix), for a prefix of one character
StartsWith(message, prefix) == Len(message) > 0 /\ message[1] = prefix

\* the catch clause of apiRequest: retry while retries are left and the error
\* is a TypeError or its message starts with '5'
ShouldRetry(retries, error) ==
    retries > 0 /\ (error.isTypeError \/ StartsWith(error.message, "5"))

\* the state of the client after the catch clause of apiRequest
AfterError(c, error) ==
    IF ShouldRetry(c.retries, error)
    THEN [c EXCEPT !.retries = @ - 1]
    ELSE [c EXCEPT !.pc = "threw", !.error = error]

\* the invoices and details a user submits
SubmittedInvoices ==
    [invoiceNumber : [prefix : {"PUR-", "INV-"}, num : {1}],
     accountId : {1, 2}, warehouseId : {1}, status : {"posted"}, total : {5}]
SubmittedDetails == {<<Detail(1, 1)>>, <<Detail(1, 2), Detail(8, 1)>>}

\* the user submits the invoice: the mutation calls apiRequest with the
\* default retries = 1
Submit(invoice, items) ==
    /\ client[1].pc = "idle"
    /\ client' = [client EXCEPT ![1] =
                    [pc |-> "fetch", retries |-> 1, attempts |-> 0,
                     failureCount |-> 0, error |-> NetworkError,
                     invoice |-> invoice,
                     details |-> [isArray |-> TRUE, items |-> items]]]
    /\ UNCHANGED <<store, request, response, reqs, handled, invoiceDetails,
                   purchaseDetails>>

\* fetch fails before the request reaches the server
FetchLost ==
    /\ client[1].pc = "fetch"
    /\ client' = [client EXCEPT ![1] =
                    AfterError([@ EXCEPT !.attempts = @ + 1], NetworkError)]
    /\ UNCHANGED <<store, request, response, reqs, handled, invoiceDetails,
                   purchaseDetails>>

\* fetch reaches the server, which handles the request; the response is
\* delivered to the client or dropped by the network
FetchHandled(delivered) ==
    /\ client[1].pc = "fetch"
    /\ PostInvoiceMock(client[1].invoice, client[1].details)
    /\ client' = [client EXCEPT ![1] =
                    LET c == [@ EXCEPT !.attempts = @ + 1]
                    IN  IF ~delivered THEN AfterError(c, NetworkError)
                        ELSE IF response'.status \in 200..299
                        THEN [c EXCEPT !.pc = "succeeded"]
                        ELSE AfterError(c, ResponseError(response'.status))]

\* apiRequest threw: the mutation (retry: 1) calls it once more, then fails
MutationRetry ==
    /\ client[1].pc = "threw"
    /\ client' = [client EXCEPT ![1] =
                    IF @.failureCount < MutationRetries
                    THEN [@ EXCEPT !.pc = "fetch", !.retries = 1,
                                   !.attempts = 0,
                                   !.failureCount = @ + 1]
                    ELSE [@ EXCEPT !.pc = "failed"]]
    /\ UNCHANGED <<store, request, response, reqs, handled, invoiceDetails,
                   purchaseDetails>>

NextSubmit ==
    \/ \E invoice \in SubmittedInvoices, items \in SubmittedDetails :
          Submit(invoice, items)
    \/ FetchLost
    \/ \E delivered \in BOOLEAN : FetchHandled(delivered)
    \/ MutationRetry

\* one client submitting one posted invoice to the mock server
SpecSubmit == Init /\ [][NextSubmit]_vars

----------------------------------------------------------------------------

(* The client: deleteProductMutation, against POST /api/inventory and      *)
(* DELETE /api/products/:id of the mock server.                            *)

\* DELETE /api/products/:id, mock path.  mockDB.deleteProduct answers
\* whether it deleted the product.
DeleteProductMock(id) ==
    /\ request' = [route |-> "DELETE /api/products/:id", id |-> id]
    /\ IF id \notin DOMAIN products
       THEN /\ response' = [route |-> "DELETE /api/products/:id", status |-> 404]
            /\ UNCHANGED products
       ELSE \E result \in BOOLEAN :
               IF result
               THEN /\ products' = [p \in DOMAIN products \ {id} |-> products[p]]
                    /\ response' = [route |-> "DELETE /api/products/:id",
                                    status |-> 200]
               ELSE /\ response' = [route |-> "DELETE /api/products/:id",
                                    status |-> 404]
                    /\ UNCHANGED products
    /\ UNCHANGED <<mockInvoices, inventory, inventoryTransactions,
                   mockTransactions, accounts, reqs, handled, invoiceDetails,
                   purchaseDetails>>

\* the mutation function starts: the stock records of the product are taken
\* from inventoryData, and the first request is prepared
StartedDeletion(id, inventoryData, failureCount) ==
    LET productInventory == RowsOfProduct(inventoryData, id)
    IN  [pc |-> "fetch",
         step |-> IF productInventory = <<>> THEN "delete" ELSE "inventory",
         id |-> id, inventoryData |-> inventoryData,
         productInventory |-> productInventory,
         deleteRetries |-> DeleteAttempts, retries |-> 1, attempts |-> 0,
         failureCount |-> failureCount, error |-> NetworkError]

\* the user confirms the deletion of a product
DeleteProduct(id) ==
    /\ client[1].pc = "idle"
    /\ client' = [client EXCEPT ![1] = StartedDeletion(id, inventory, 0)]
    /\ UNCHANGED <<store, request, response, reqs, handled, invoiceDetails,
                   purchaseDetails>>

\* step 2: the count request that sets the next stock record of the product
\* to zero reaches the server; the response is delivered or dropped
ZeroInventoryHandled(delivered) ==
    /\ client[1].pc = "fetch"
    /\ client[1].step = "inventory"
    /\ PostInventoryMock(client[1].id,
                         client[1].productInventory[1].warehouseId, 0, TRUE)
    /\ client' = [client EXCEPT ![1] =
                    LET c == [@ EXCEPT !.attempts = @ + 1]
                    IN  IF ~delivered THEN AfterError(c, NetworkError)
                        ELSE IF response'.status \notin 200..299
                        THEN AfterError(c, ResponseError(response'.status))
                        ELSE [c EXCEPT
                                !.productInventory = Tail(@),
                                !.step = IF Len(c.productInventory) = 1
                                         THEN "delete" ELSE "inventory",
                                !.retries = 1, !.attempts = 0]]

\* step 4: the DELETE request reaches the server; the response is delivered
\* or dropped
DeleteHandled(delivered) ==
    /\ client[1].pc = "fetch"
    /\ client[1].step = "delete"
    /\ DeleteProductMock(client[1].id)
    /\ client' = [client EXCEPT ![1] =
                    LET c == [@ EXCEPT !.attempts = @ + 1]
                    IN  IF ~delivered THEN AfterError(c, NetworkError)
                        ELSE IF response'.status \notin 200..299
                        THEN AfterError(c, ResponseError(response'.status))
                        ELSE [c EXCEPT !.pc = "succeeded"]]

\* apiRequest threw.  In the DELETE loop the error is caught and the request
\* is attempted again while attempts are left; otherwise the mutation
\* function throws, and the mutation (retry: 1) runs it once more, then fails.
DeleteProductCatch ==
    /\ client[1].pc = "threw"
    /\ LET c == client[1]
           left == IF c.step = "delete" THEN c.deleteRetries - 1
                   ELSE c.deleteRetries
       IN  client' = [client EXCEPT ![1] =
              IF c.step = "delete" /\ left > 0
              THEN [c EXCEPT !.pc = "fetch", !.retries = 1, !.attempts = 0,
                             !.deleteRetries = left]
              ELSE IF c.failureCount < MutationRetries
              THEN StartedDeletion(c.id, c.inventoryData, c.failureCount + 1)
              ELSE [c EXCEPT !.pc = "failed", !.deleteRetries = left]]
    /\ UNCHANGED <<store, request, response, reqs, handled, invoiceDetails,
                   purchaseDetails>>

NextDeleteProduct ==
    \/ \E id \in ProductIds : DeleteProduct(id)
    \/ FetchLost
    \/ \E delivered \in BOOLEAN : ZeroInventoryHandled(delivered)
    \/ \E delivered \in BOOLEAN : DeleteHandled(delivered)
    \/ DeleteProductCatch

\* one client deleting one product on the mock server
SpecDeleteProduct == Init /\ [][NextDeleteProduct]_vars

----------------------------------------------------------------------------

(* Route dispatch: the routes of the accounts and products resources, in   *)
(* the order they are registered.  A request is handled by the first route *)
(* whose method and path match; no handler passes the request on.          *)

Route(method, path) == [method |-> method, path |-> path]

Routes ==
    << Route("POST",   <<"api", "accounts">>),
       Route("GET",    <<"api", "accounts">>),
       Route("GET",    <<"api", "accounts", ":id">>),
       Route("PUT",    <<"api", "accounts", ":id">>),
       Route("DELETE", <<"api", "accounts", ":id">>),
       Route("PATCH",  <<"api", "accounts", ":id">>),
       Route("GET",    <<"api", "accounts", "search">>),
       Route("POST",   <<"api", "products">>),
       Route("GET",    <<"api", "products">>),
       Route("GET",    <<"api", "products", "search">>),
       Route("GET",    <<"api", "products", ":id">>),
       Route("PATCH",  <<"api", "products", ":id">>),
       Route("DELETE", <<"api", "products", ":id">>) >>

\* the path of the request matches the path of the route: the same segments,
\* a parameter (:id) matching any segment
PathMatches(pattern, path) ==
    /\ Len(pattern) = Len(path)
    /\ \A k \in 1..Len(pattern) : pattern[k] = ":id" \/ pattern[k] = path[k]

\* the index of the first route that matches the request, 0 when none does
FirstMatch(method, path) ==
    LET hits == {i \in 1..Len(Routes) :
                    Routes[i].method = method /\ PathMatches(Routes[i].path, path)}
    IN  IF hits = {} THEN 0 ELSE CHOOSE i \in hits : \A j \in hits : i <= j

\* Number(text) and parseInt(text) of a path segment
ParseId(text) ==
    IF text = "1" THEN Number(1)
    ELSE IF text = "2" THEN Number(2)
    ELSE IF text = "8" THEN Number(8)
    ELSE IF text = "9" THEN Number(9)
    ELSE NotANumber

\* the requests: GET on the paths of the two resources
RequestResources == {"accounts", "products"}
RequestTails == {<<>>, <<"search">>, <<"1">>, <<"2">>, <<"8">>, <<"9">>,
                 <<"abc">>, <<"1", "x">>}
RequestQueries == {Undefined, "", "a", "b", "c", "ab", "abc"}

\* the status the handler of the route answers the request with
HandlerStatus(route, path, query) ==
    IF Len(route.path) = 2 THEN 200
    ELSE IF route.path[3] = "search"
    THEN (IF query = Undefined \/ query = "" THEN 400 ELSE 200)
    ELSE LET id == ParseId(path[3])
         IN  IF ~id.isNumber THEN 400
             ELSE IF route.path[2] = "accounts"
             THEN (IF id.value \in DOMAIN accounts THEN 200 ELSE 404)
             ELSE (IF id.value \in DOMAIN products THEN 200 ELSE 404)

\* a GET request is dispatched and answered
Get(resource, tail, query) ==
    LET path == <<"api", resource>> \o tail
        i == FirstMatch("GET", path)
    IN  /\ request' = [route |-> "GET", path |-> path, query |-> query]
        /\ response' =
              IF i = 0 THEN [route |-> <<>>, status |-> 404]
              ELSE [route |-> Routes[i].path,
                    status |-> HandlerStatus(Routes[i], path, query)]
        /\ UNCHANGED <<store, reqs, handled, client, invoiceDetails,
                       purchaseDetails>>

NextRoutes ==
    \E resource \in RequestResources, tail \in RequestTails,
       query \in RequestQueries : Get(resource, tail, query)

\* the server dispatching GET requests on accounts and products
SpecRoutes == Init /\ [][NextRoutes]_vars

----------------------------------------------------------------------------

(* Properties of POST /api/invoices *)

\* the step handles a POST /api/invoices request
IsPostInvoiceStep ==
    /\ request'.route = "POST /api/invoices"
    /\ Len(mockInvoices') = Len(mockInvoices) + 1

\* the step posts a document that carries a details array, and succeeds
IsPostingStep ==
    /\ IsPostInvoiceStep
    /\ request'.invoice.status = "posted"
    /\ request'.details.isArray
    /\ response'.status = 201

LevelsUnchanged ==
    \A p \in ProductIds, w \in WarehouseIds :
        GetLevel(inventory', p, w) = GetLevel(inventory, p, w)

BalancesUnchanged ==
    \A a \in DOMAIN accounts :
        accounts'[a].currentBalance = accounts[a].currentBalance

RECURSIVE LineQuantity(_, _)
\* total quantity of the lines of items that name product p
LineQuantity(items, p) ==
    IF items = <<>> THEN 0
    ELSE (IF ~Head(items).isNull /\ Head(items).productId = p
          THEN Head(items).quantity ELSE 0) + LineQuantity(Tail(items), p)

RECURSIVE DebitSum(_, _)
\* sum of the debit journal amounts recorded under a reference
DebitSum(txs, reference) ==
    IF txs = <<>> THEN 0
    ELSE (IF Head(txs).type = "journal" /\ Head(txs).reference = reference
             /\ Head(txs).isDebit THEN Head(txs).amount ELSE 0)
         + DebitSum(Tail(txs), reference)

RECURSIVE CreditSum(_, _)
\* sum of the credit journal amounts recorded under a reference
CreditSum(txs, reference) ==
    IF txs = <<>> THEN 0
    ELSE (IF Head(txs).type = "journal" /\ Head(txs).reference = reference
             /\ ~Head(txs).isDebit THEN Head(txs).amount ELSE 0)
         + CreditSum(Tail(txs), reference)

\* number of journal entries recorded under a reference
EntriesOf(reference) ==
    Cardinality({i \in 1..Len(mockTransactions) :
                    /\ mockTransactions[i].type = "journal"
                    /\ mockTransactions[i].reference = reference})

\* number of stock movements logged for a document id
MovementsOf(documentId) ==
    Cardinality({i \in 1..Len(inventoryTransactions) :
                    inventoryTransactions[i].documentId = documentId})

\* C1: after a failed posting (POST /api/invoices with status 'posted' that
\* ends in an error) every stock level and every account balance equals its
\* value before the call.
C1_FailedPostingChangesNothing ==
    [][(IsPostInvoiceStep /\ request'.invoice.status = "posted"
        /\ response'.status >= 400)
       => (LevelsUnchanged /\ BalancesUnchanged)]_vars

\* C2: a second POST of a document that is already stored as posted, with its
\* journal entries on record, is rejected with an error and leaves the stock
\* levels, both logs and the balances as they were after the first.
C2_SecondPostingRejected ==
    [][(/\ IsPostInvoiceStep
        /\ request'.invoice.status = "posted"
        /\ request'.details.isArray
        /\ EntriesOf(request'.invoice.invoiceNumber) > 0
        /\ \E i \in 1..Len(mockInvoices) :
              /\ mockInvoices[i].status = "posted"
              /\ mockInvoices[i].invoiceNumber = request'.invoice.invoiceNumber
              /\ mockInvoices[i].accountId = request'.invoice.accountId
              /\ mockInvoices[i].warehouseId = request'.invoice.warehouseId
              /\ mockInvoices[i].total = request'.invoice.total)
       => (/\ response'.status >= 400
           /\ UNCHANGED <<inventory, inventoryTransactions,
                          mockTransactions, accounts>>)]_vars

\* the number of journal entries the policy fixes for the type of a document
ExpectedEntries(invoice) ==
    IF IsPurchase(invoice) THEN 2 ELSE IF IsSale(invoice) THEN 4 ELSE 0

\* C3: in every state, a stored document with status 'posted' has its journal
\* entries recorded, and a stored document that is not posted has no stock
\* movement and (when no other document shares its number) no journal entry.
C3_PostedIffEffectsRecorded ==
    \A i \in 1..Len(mockInvoices) :
        LET inv == mockInvoices[i]
            alone == \A j \in 1..Len(mockInvoices) :
                        j # i => mockInvoices[j].invoiceNumber # inv.invoiceNumber
        IN  /\ inv.status = "posted"
                  => EntriesOf(inv.invoiceNumber) >= ExpectedEntries(inv)
            /\ inv.status # "posted" => MovementsOf(inv.id) = 0
            /\ (inv.status # "posted" /\ alone) => EntriesOf(inv.invoiceNumber) = 0

\* C4: posting a purchase adds the quantity of its lines on product P to the
\* stock level of (P, warehouse of the document), posting a sale subtracts
\* it, and no other stock level changes.
C4_StockConservation ==
    [][(IsPostingStep
        /\ (IsPurchase(request'.invoice) \/ IsSale(request'.invoice)))
       => \A p \in ProductIds, w \in WarehouseIds :
             GetLevel(inventory', p, w) =
                GetLevel(inventory, p, w)
                + (IF w # request'.invoice.warehouseId THEN 0
                   ELSE IF IsPurchase(request'.invoice)
                        THEN LineQuantity(request'.details.items, p)
                        ELSE 0 - LineQuantity(request'.details.items, p))]_vars

\* a sale of two units of product 1 has been posted on the initial stock
C4_Witness ==
    /\ Len(mockInvoices) = 1
    /\ request.route = "POST /api/invoices"
    /\ response.status = 201
    /\ request.invoice.status = "posted"
    /\ IsSale(request.invoice)
    /\ request.details.isArray
    /\ LineQuantity(request.details.items, 1) = 2
    /\ GetLevel(inventory, 1, 1) = GetLevel(InitInventory, 1, 1) - 2

C7_JournalBalanced ==
    \A i \in 1..Len(mockInvoices) :
        mockInvoices[i].status = "posted"
            => DebitSum(mockTransactions, mockInvoices[i].invoiceNumber)
                 = CreditSum(mockTransactions, mockInvoices[i].invoiceNumber)

\* a sale whose cost of goods sold differs from its total has been posted
C7_Witness ==
    \E i \in 1..Len(mockInvoices) :
        /\ mockInvoices[i].status = "posted"
        /\ IsSale(mockInvoices[i])
        /\ EntriesOf(mockInvoices[i].invoiceNumber) = 4
        /\ DebitSum(mockTransactions, mockInvoices[i].invoiceNumber)
              = mockInvoices[i].total + 4

RECURSIVE CostOfLines(_, _)
\* sum over the lines of the product's cost price times the line quantity
CostOfLines(items, prods) ==
    IF items = <<>> THEN 0
    ELSE (IF ~Head(items).isNull /\ Head(items).productId \in DOMAIN prods
          THEN prods[Head(items).productId].costPrice * Head(items).quantity
          ELSE 0) + CostOfLines(Tail(items), prods)

\* the fields of a journal entry the policy fixes
Entry(accountId, amount, reference, isDebit) ==
    [type |-> "journal", accountId |-> accountId, amount |-> amount,
     reference |-> reference, isDebit |-> isDebit]

\* the entries a step appends to the transaction log, without their ids
AppendedEntries ==
    [k \in 1..(Len(mockTransactions') - Len(mockTransactions)) |->
        LET t == mockTransactions'[Len(mockTransactions) + k]
        IN  Entry(t.accountId, t.amount, t.reference, t.isDebit)]

----------------------------------------------------------------------------
(* Properties of POST /api/inventory *)

RECURSIVE LoggedQuantity(_, _, _)
\* sum of the quantities logged for the cell (p, w)
LoggedQuantity(log, p, w) ==
    IF log = <<>> THEN 0
    ELSE (IF Head(log).productId = p /\ Head(log).warehouseId = w
          THEN Head(log).quantity ELSE 0) + LoggedQuantity(Tail(log), p, w)

\* number of movements logged for the cell (p, w)
LoggedCount(log, p, w) ==
    Cardinality({i \in 1..Len(log) :
                    log[i].productId = p /\ log[i].warehouseId = w})

\* C10: every movement applied through POST /api/inventory adds exactly one
\* record to the movement log of its cell, and the quantity it logs equals the
\* change of the stock level of the cell; so after N applied movements the log
\* holds N new records whose quantities sum to the change of the level.
C10_MovementLogMatchesLevel ==
    [][(request'.route = "POST /api/inventory" /\ response'.status = 200)
       => \A p \in ProductIds, w \in WarehouseIds :
             /\ LoggedCount(inventoryTransactions', p, w)
                  = LoggedCount(inventoryTransactions, p, w)
                    + (IF p = request'.productId /\ w = request'.warehouseId
                       THEN 1 ELSE 0)
             /\ LoggedQuantity(inventoryTransactions', p, w)
                  - LoggedQuantity(inventoryTransactions, p, w)
                  = GetLevel(inventory', p, w) - GetLevel(inventory, p, w)]_vars

----------------------------------------------------------------------------
(* Properties of concurrent postings on the database path *)

\* the change a finished request makes to the stock of product p when it
\* runs alone
StockChangeOf(r, p) ==
    IF reqs[r].pc = "done" /\ reqs[r].applied
    THEN IF IsPurchase(reqs[r].invoice)
         THEN LineQuantity(reqs[r].details.items, p)
         ELSE 0 - LineQuantity(reqs[r].details.items, p)
    ELSE 0

\* the change a finished request makes to the balance of account a when it
\* runs alone
BalanceChangeOf(r, a) ==
    IF reqs[r].pc = "done" /\ reqs[r].applied /\ reqs[r].invoice.accountId = a
    THEN NewBalance(0, reqs[r].invoice)
    ELSE 0

RECURSIVE SumOver(_, _)
\* sum of f[r] over the slots 1..n
SumOver(f, n) == IF n = 0 THEN 0 ELSE f[n] + SumOver(f, n - 1)

\* C9: once all concurrent postings have finished, every stock level and every
\* balance is what running the postings one after the other gives: the
\* initial value plus the changes of all of them.
C9_ConcurrentPostingsSerialize ==
    (\A r \in Slots : reqs[r].pc = "done")
    => /\ \A p \in ProductIds :
             GetLevel(inventory, p, 1) =
                GetLevel(InitInventory, p, 1)
                + SumOver([r \in Slots |-> StockChangeOf(r, p)], MaxRequests)
       /\ \A a \in DOMAIN accounts :
             accounts[a].currentBalance =
                InitAccounts[a].currentBalance
                + SumOver([r \in Slots |-> BalanceChangeOf(r, a)], MaxRequests)

----------------------------------------------------------------------------
(* Properties of an absolute count *)

\* C11: an absolute count (POST /api/inventory with isCount and quantity q)
\* that is applied sets the level of its cell to q and logs one movement whose
\* quantity is q minus the level before the count.
C11_CountLogsDelta ==
    [][(/\ request'.route = "POST /api/inventory"
        /\ request'.isCount
        /\ response'.status = 200)
       => LET p == request'.productId
              w == request'.warehouseId
          IN  /\ GetLevel(inventory', p, w) = request'.quantity
              /\ Len(inventoryTransactions') = Len(inventoryTransactions) + 1
              /\ inventoryTransactions'[Len(inventoryTransactions')].quantity
                    = request'.quantity - GetLevel(inventory, p, w)]_vars

----------------------------------------------------------------------------
(* Properties of POST /api/transactions *)

\* the step handles a POST /api/transactions request
IsPostTransactionStep ==
    /\ request'.route = "POST /api/transactions"
    /\ handled' = handled + 1

\* the step records the transaction of a POST /api/transactions request on a
\* known account
IsAppliedTransactionStep ==
    /\ IsPostTransactionStep
    /\ response'.status = 201
    /\ request'.accountId \in DOMAIN accounts

\* every balance but that of account a is unchanged, and that of a changes
\* by change
OnlyBalanceChanges(a, change) ==
    \A b \in DOMAIN accounts :
        accounts'[b].currentBalance =
            accounts[b].currentBalance + (IF b = a THEN change ELSE 0)

\* C12: a POST /api/transactions whose amount is not greater than 0 (a
\* number <= 0, or not a number) is answered with the client error 400,
\* records no Transaction and changes no balance.
C12_NonPositiveAmountRejected ==
    [][(IsPostTransactionStep
        /\ ~(request'.amount.isNumber /\ request'.amount.value > 0))
       => (/\ response'.status = 400
           /\ UNCHANGED <<mockTransactions, accounts>>)]_vars

\* a credit of -3 on customer 1 has been rejected after an accepted transaction
C12_Witness ==
    /\ request.route = "POST /api/transactions"
    /\ request.amount = Number(-3)
    /\ request.type = "credit"
    /\ request.accountId = 1
    /\ request.paymentMethod = Undefined
    /\ response.status = 400
    /\ Len(mockTransactions) = 1

C14_JournalUpdatesBalance ==
    [][(IsAppliedTransactionStep /\ request'.type = "journal")
       => OnlyBalanceChanges(
              request'.accountId,
              IF request'.isDebit THEN ParseFloat(request'.amount).value
              ELSE 0 - ParseFloat(request'.amount).value)]_vars

\* C15: a POST /api/transactions on an unknown account id is answered with an
\* error and records no Transaction.
C15_UnknownAccountRejected ==
    [][(IsPostTransactionStep /\ request'.accountId \notin DOMAIN accounts)
       => (response'.status >= 400 /\ UNCHANGED mockTransactions)]_vars

----------------------------------------------------------------------------
(* Properties of the validation and the frame of POST /api/invoices *)

\* the request posts a purchase or a sale with a details array
IsPostRequest ==
    /\ IsPostInvoiceStep
    /\ request'.invoice.status = "posted"
    /\ request'.details.isArray
    /\ (IsPurchase(request'.invoice) \/ IsSale(request'.invoice))

\* the request names an account or a warehouse that does not exist, or a line
\* of it names a product that does not exist
HasUnknownReference ==
    \/ request'.invoice.accountId \notin DOMAIN accounts
    \/ request'.invoice.warehouseId \notin KnownWarehouses
    \/ \E k \in 1..Len(request'.details.items) :
          /\ ~request'.details.items[k].isNull
          /\ request'.details.items[k].productId \notin DOMAIN products

\* C16: posting a purchase or a sale that references an unknown product,
\* account or warehouse is rejected with an error and produces no stock
\* movement, no journal entry and no balance change.
C16_UnknownReferenceRejected ==
    [][(IsPostRequest /\ HasUnknownReference)
       => (/\ response'.status >= 400
           /\ UNCHANGED <<inventory, inventoryTransactions,
                          mockTransactions, accounts>>)]_vars

\* C17: no posting changes a stock level through a line of quantity <= 0: a
\* sale never increases a stock level and a purchase never decreases one.
C17_NonPositiveQuantityMovesNoStock ==
    [][IsPostRequest
       => \A p \in ProductIds, w \in WarehouseIds :
             /\ IsSale(request'.invoice)
                   => GetLevel(inventory', p, w) <= GetLevel(inventory, p, w)
             /\ IsPurchase(request'.invoice)
                   => GetLevel(inventory', p, w) >= GetLevel(inventory, p, w)]_vars

\* C18: storing a document whose status is not 'posted' leaves every stock
\* level, the stock movement log, the transaction log and every balance
\* unchanged.
C18_DraftHasNoLedgerEffects ==
    [][(IsPostInvoiceStep /\ request'.invoice.status # "posted")
       => UNCHANGED <<inventory, inventoryTransactions,
                      mockTransactions, accounts>>]_vars

\* a draft with a line of two units has been stored after a posted sale, and
\* the ledgers are as the sale left them
C18_Witness ==
    /\ Len(mockInvoices) = 2
    /\ mockInvoices[1].status = "posted"
    /\ IsSale(mockInvoices[1])
    /\ mockInvoices[2].status = "draft"
    /\ request.route = "POST /api/invoices"
    /\ request.invoice.status = "draft"
    /\ request.details.isArray
    /\ request.details.items = <<Detail(1, 2)>>
    /\ response.status = 201
    /\ Len(mockTransactions) = 4
    /\ MovementsOf(mockInvoices[2].id) = 0

----------------------------------------------------------------------------
(* Properties of the transaction log *)

\* C19: every Transaction on record has an amount greater than 0.
C19_AmountsPositive ==
    \A i \in 1..Len(mockTransactions) : mockTransactions[i].amount > 0

\* C20: the transaction log is append-only: a Transaction on record before a
\* step is on record after it with the same field values.
C20_TransactionLogAppendOnly ==
    [][\A i \in 1..Len(mockTransactions) :
          \E j \in 1..Len(mockTransactions') :
             mockTransactions'[j] = mockTransactions[i]]_vars

----------------------------------------------------------------------------
(* The balance of an account and its recorded transactions *)

\* the signed sum of the credit and debit transactions recorded for account
\* a: debits minus credits for a customer, credits minus debits for a supplier
RECURSIVE SignedTransactionSum(_, _, _)
SignedTransactionSum(txs, a, accountType) ==
    IF txs = <<>> THEN 0
    ELSE LET t == Head(txs)
             sign == IF t.accountId # a THEN 0
                     ELSE IF t.type = "debit"
                     THEN (IF accountType = "customer" THEN 1 ELSE -1)
                     ELSE IF t.type = "credit"
                     THEN (IF accountType = "customer" THEN -1 ELSE 1)
                     ELSE 0
         IN  sign * t.amount + SignedTransactionSum(Tail(txs), a, accountType)

\* C27: in every state of the mock path the currentBalance of a customer or
\* supplier account is its opening balance plus the signed sum of the credit
\* and debit transactions currently stored for it, whatever create, update
\* and delete transaction requests were handled.
C27_BalanceMatchesTransactions ==
    \A a \in DOMAIN accounts :
        accounts[a].type \in {"customer", "supplier"} =>
            accounts[a].currentBalance =
                InitAccounts[a].currentBalance
                + SignedTransactionSum(mockTransactions, a, accounts[a].type)

----------------------------------------------------------------------------
(* Properties of the stock records, the movement log and product deletion *)

\* C21: a stock movement, once recorded, is present and unchanged in every
\* later state: no step removes or rewrites a record of the movement log.
C21_MovementLogAppendOnly ==
    [][/\ Len(inventoryTransactions') >= Len(inventoryTransactions)
       /\ \A i \in 1..Len(inventoryTransactions) :
             inventoryTransactions'[i] = inventoryTransactions[i]]_vars

\* the product is referenced by a stock record or by a document line
IsReferenced(id) ==
    \/ RowsOfProduct(inventory, id) # <<>>
    \/ RowsOfProduct(invoiceDetails, id) # <<>>
    \/ RowsOfProduct(purchaseDetails, id) # <<>>

\* C22: a product is never deleted while a stock record or a document line
\* references it.
C22_ReferencedProductNotDeleted ==
    [][\A id \in DOMAIN products :
          IsReferenced(id) => id \in DOMAIN products']_vars

\* C28: on the database path there is at most one stock record for each
\* (productId, warehouseId) pair, whatever the interleaving of the count
\* requests, two concurrent first counts of a pair included.
C28_OneRecordPerPair ==
    \A i, j \in 1..Len(inventory) :
        (/\ inventory[i].productId = inventory[j].productId
         /\ inventory[i].warehouseId = inventory[j].warehouseId) => i = j

----------------------------------------------------------------------------
(* Properties of the read requests and of invoice numbering *)

\* the step answers one of the read requests
IsReadStep ==
    request'.route \in {"GET /api/next-invoice-number", "GET /api/invoices",
                        "GET /api/transactions"}

C26_InvoiceNumbersUnique ==
    \A i, j \in 1..Len(mockInvoices) :
        mockInvoices[i].invoiceNumber = mockInvoices[j].invoiceNumber => i = j

----------------------------------------------------------------------------
(* Properties of the client *)

\* C24: when apiRequest, called with the default retries = 1, throws, it has
\* sent the request twice if the failure was a 5xx response or a network
\* error, and once for any other failure.
C24_ServerErrorRetriedOnce ==
    client[1].pc = "threw" =>
        client[1].attempts =
            IF client[1].error.isTypeError \/ client[1].error.status >= 500
            THEN 2 ELSE 1

\* C25: one submit of a posted invoice is applied at most once, even when
\* the network drops a response after the server handled the request: the
\* server never stores a second invoice for it.
C25_SubmitAppliedAtMostOnce == Len(mockInvoices) <= 1


\* C29: when the delete-product operation of the client ends in failure
\* (every DELETE attempt failed), the stock records of the product hold the
\* quantities they held before the operation.
C29_FailedDeletionKeepsStock ==
    (client[1].pc = "failed" /\ client[1].step = "delete") =>
        RowsOfProduct(inventory, client[1].id) =
            RowsOfProduct(client[1].inventoryData, client[1].id)


\* C30: a GET /api/accounts/search request with a non-empty query is handled
\* by the account-search route and not by GET /api/accounts/:id, and a
\* GET /api/products/search request by the product-search route.
C30_SearchReachesSearchHandler ==
    (/\ request.route = "GET"
     /\ Len(request.path) = 3
     /\ request.path[3] = "search"
     /\ request.query \notin {Undefined, ""})
    => response.route = request.path

====
